---- MODULE Spec2Model ----
(***************************************************************************)
(* A model of passport-zalo: the Zalo OAuth 2.0 strategy (lib/strategy.js), *)
(* the profile normalizer (lib/profile.js) and ZaloAPIError                 *)
(* (lib/errors/apierror.js).                                                *)
(*                                                                          *)
(* JavaScript values are records tagged by `t`.  A JavaScript string is a   *)
(* sequence of pieces; a piece is a character (or an unbroken word), a      *)
(* quoted JSON string literal or a JSON number literal, so that string      *)
(* concatenation is \o and JSON.parse, parseInt, url.parse and url.format   *)
(* are computed over the text instead of being assumed.                     *)
(***************************************************************************)
EXTENDS Integers, Sequences, FiniteSets, Bags, TLC

VARIABLES config, inflight, last

vars == <<config, inflight, last>>

----------------------------------------------------------------------------
(* JavaScript values *)

Undefined == [t |-> "undefined"]
Null == [t |-> "null"]
NaN == [t |-> "nan"]
Num(n) == [t |-> "num", n |-> n]
Bool(b) == [t |-> "bool", b |-> b]
Str(s) == [t |-> "str", s |-> s]
Obj(m) == [t |-> "obj", m |-> m]
Arr(e) == [t |-> "arr", e |-> e]
Fn(name) == [t |-> "fn", f |-> name]

(* pieces of a string *)
Ch(c) == [k |-> "ch", c |-> c]
Lit(s) == [k |-> "lit", s |-> s]
NumLit(n) == [k |-> "numlit", n |-> n]

(* the string made of the given characters / words *)
Chars(cs) == [i \in 1..Len(cs) |-> Ch(cs[i])]
Text(cs) == Str(Chars(cs))
Word(w) == Text(<<w>>)
EmptyString == Str(<< >>)

EmptyMap == [key \in {} |-> Undefined]

(* ToBoolean *)
Truthy(v) ==
    CASE v.t = "undefined" -> FALSE
      [] v.t = "null" -> FALSE
      [] v.t = "nan" -> FALSE
      [] v.t = "bool" -> v.b
      [] v.t = "num" -> v.n # 0
      [] v.t = "str" -> v.s # << >>
      [] OTHER -> TRUE

(* typeof v == 'object' *)
TypeofObject(v) == v.t \in {"obj", "arr", "null"}

(* names every object literal inherits from Object.prototype *)
ObjectPrototypeProps ==
    {Word("constructor"), Word("toString"), Word("hasOwnProperty")}

(* v[key] threw a TypeError: v is null or undefined *)
GetThrows(v) == v.t \in {"undefined", "null"}

(* v[key], for v neither null nor undefined *)
Get(v, key) ==
    IF v.t = "obj"
    THEN IF key \in DOMAIN v.m THEN v.m[key]
         ELSE IF key \in ObjectPrototypeProps THEN Fn(key)
         ELSE Undefined
    ELSE Undefined

(* the text Array.prototype.join gives an element *)
JoinText(v) ==
    CASE v.t = "str" -> v.s
      [] v.t \in {"undefined", "null"} -> << >>
      [] v.t = "fn" -> <<Ch("function ")>> \o v.f.s \o <<Ch("() { [native code] }")>>
      [] OTHER -> <<Ch("[object]")>>

RECURSIVE Join(_, _)
Join(elems, sep) ==
    IF elems = << >> THEN << >>
    ELSE IF Len(elems) = 1 THEN JoinText(elems[1])
    ELSE JoinText(elems[1]) \o sep \o Join(Tail(elems), sep)

----------------------------------------------------------------------------
(* JSON.parse over the pieces of a text *)

Fail == [ok |-> FALSE]
Parsed(v, i) == [ok |-> TRUE, v |-> v, i |-> i]

IsCh(p, c) == p.k = "ch" /\ p.c = c

RECURSIVE ParseValue(_, _), ParseMembers(_, _, _), ParseElements(_, _, _)

ParseValue(ts, i) ==
    IF i > Len(ts) THEN Fail
    ELSE LET p == ts[i] IN
         CASE p.k = "lit" -> Parsed(Str(p.s), i + 1)
           [] p.k = "numlit" -> Parsed(Num(p.n), i + 1)
           [] IsCh(p, "null") -> Parsed(Null, i + 1)
           [] IsCh(p, "true") -> Parsed(Bool(TRUE), i + 1)
           [] IsCh(p, "false") -> Parsed(Bool(FALSE), i + 1)
           [] IsCh(p, "{") ->
                IF i + 1 <= Len(ts) /\ IsCh(ts[i + 1], "}")
                THEN Parsed(Obj(EmptyMap), i + 2)
                ELSE ParseMembers(ts, i + 1, EmptyMap)
           [] IsCh(p, "[") ->
                IF i + 1 <= Len(ts) /\ IsCh(ts[i + 1], "]")
                THEN Parsed(Arr(<< >>), i + 2)
                ELSE ParseElements(ts, i + 1, << >>)
           [] OTHER -> Fail

(* members of an object from position i, m holding those already read *)
ParseMembers(ts, i, m) ==
    IF i + 1 > Len(ts) \/ ts[i].k # "lit" \/ ~IsCh(ts[i + 1], ":") THEN Fail
    ELSE LET key == Str(ts[i].s)
             r == ParseValue(ts, i + 2)
         IN  IF ~r.ok \/ r.i > Len(ts) THEN Fail
             ELSE LET m2 == [x \in DOMAIN m \cup {key} |->
                                IF x = key THEN r.v ELSE m[x]]
                  IN  IF IsCh(ts[r.i], "}") THEN Parsed(Obj(m2), r.i + 1)
                      ELSE IF IsCh(ts[r.i], ",") THEN ParseMembers(ts, r.i + 1, m2)
                      ELSE Fail

ParseElements(ts, i, e) ==
    LET r == ParseValue(ts, i)
    IN  IF ~r.ok \/ r.i > Len(ts) THEN Fail
        ELSE IF IsCh(ts[r.i], "]") THEN Parsed(Arr(Append(e, r.v)), r.i + 1)
        ELSE IF IsCh(ts[r.i], ",") THEN ParseElements(ts, r.i + 1, Append(e, r.v))
        ELSE Fail

(* JSON.parse(text): ok is FALSE where it throws a SyntaxError *)
JSONParse(text) ==
    IF text.t = "null" THEN [ok |-> TRUE, v |-> Null]
    ELSE IF text.t # "str" THEN [ok |-> FALSE]
    ELSE LET r == ParseValue(text.s, 1)
         IN  IF r.ok /\ r.i = Len(text.s) + 1
             THEN [ok |-> TRUE, v |-> r.v]
             ELSE [ok |-> FALSE]

----------------------------------------------------------------------------
(* parseInt(string, 10) *)

Digits == {"0", "1", "2", "3", "4", "5", "6", "7", "8", "9"}

DigitVal(c) ==
    CASE c = "0" -> 0 [] c = "1" -> 1 [] c = "2" -> 2 [] c = "3" -> 3
      [] c = "4" -> 4 [] c = "5" -> 5 [] c = "6" -> 6 [] c = "7" -> 7
      [] c = "8" -> 8 [] c = "9" -> 9

IsDigit(p) == p.k = "ch" /\ p.c \in Digits

RECURSIVE SkipSpaces(_)
SkipSpaces(s) ==
    IF s # << >> /\ IsCh(s[1], " ") THEN SkipSpaces(Tail(s)) ELSE s

(* the value of the longest prefix of digits of s, acc the value so far *)
RECURSIVE DigitsValue(_, _)
DigitsValue(s, acc) ==
    IF s # << >> /\ IsDigit(s[1])
    THEN DigitsValue(Tail(s), 10 * acc + DigitVal(s[1].c))
    ELSE acc

ParseIntAsIs(v) == v

ParseInt(v) ==
    IF v.t # "str" THEN NaN
    ELSE LET s == SkipSpaces(v.s)
             neg == s # << >> /\ IsCh(s[1], "-")
             signed == s # << >> /\ (IsCh(s[1], "-") \/ IsCh(s[1], "+"))
             d == IF signed THEN Tail(s) ELSE s
         IN  IF d = << >> \/ ~IsDigit(d[1]) THEN NaN
             ELSE Num(IF neg THEN 0 - DigitsValue(d, 0) ELSE DigitsValue(d, 0))

----------------------------------------------------------------------------
(* errors *)

ProviderStatus == 500

ZaloAPIError(message, code) ==
    [t |-> "error", name |-> "ZaloAPIError", message |-> message,
     code |-> code, status |-> ProviderStatus]

InternalOAuthError(message, err) ==
    [t |-> "error", name |-> "InternalOAuthError", message |-> message,
     oauthError |-> err]

Error(message) == [t |-> "error", name |-> "Error", message |-> message]

SyntaxError == [t |-> "exception", name |-> "SyntaxError"]
TypeError == [t |-> "exception", name |-> "TypeError"]

----------------------------------------------------------------------------
(* url.parse and url.format of the legacy url module, over the pieces of    *)
(* the URL: everything before the first "?" or "#" is kept as one part.     *)

(* the index of the first piece that is the character c, 0 if there is none *)
RECURSIVE IndexFrom(_, _, _)
IndexFrom(s, c, i) ==
    IF i > Len(s) THEN 0
    ELSE IF IsCh(s[i], c) THEN i
    ELSE IndexFrom(s, c, i + 1)

IndexOf(s, c) == IndexFrom(s, c, 1)

UrlParse(href) ==
    LET h == IndexOf(href.s, "#")
        rest == IF h = 0 THEN href.s ELSE SubSeq(href.s, 1, h - 1)
        q == IndexOf(rest, "?")
    IN  [path |-> IF q = 0 THEN rest ELSE SubSeq(rest, 1, q - 1),
         search |-> IF q = 0 THEN Null ELSE Str(SubSeq(rest, q, Len(rest))),
         hash |-> IF h = 0 THEN Null ELSE Str(SubSeq(href.s, h, Len(href.s)))]

(* String.prototype.replace('#', '%23'): the first occurrence only *)
EscapeHash(s) ==
    LET h == IndexOf(s, "#")
    IN  IF h = 0 THEN s ELSE [s EXCEPT ![h] = Ch("%23")]

UrlFormat(url) ==
    LET search0 == IF Truthy(url.search) THEN url.search.s ELSE << >>
        search == IF search0 # << >> /\ ~IsCh(search0[1], "?")
                  THEN <<Ch("?")>> \o search0 ELSE search0
        hash0 == IF Truthy(url.hash) THEN url.hash.s ELSE << >>
        hash == IF hash0 # << >> /\ ~IsCh(hash0[1], "#")
                THEN <<Ch("#")>> \o hash0 ELSE hash0
    IN  Str(url.path \o EscapeHash(search) \o hash)

----------------------------------------------------------------------------
(* lib/profile.js *)

MapOf(pairs) ==
    [key \in {p[1] : p \in pairs} |-> (CHOOSE p \in pairs : p[1] = key)[2]]

PhotosOfPicture(picture) ==
    Arr(<<Obj(MapOf({<<Word("value"), picture>>}))>>)

Photos(picture) ==
    IF TypeofObject(picture) /\ Truthy(Get(picture, Word("data")))
    THEN Arr(<<Obj(MapOf({<<Word("value"),
                            Get(Get(picture, Word("data")), Word("url"))>>}))>>)
    ELSE Arr(<<Obj(MapOf({<<Word("value"), picture>>}))>>)

(* Profile.parse(json): ok is FALSE where it throws, exc the exception *)
ProfileParse(json) ==
    LET r == IF json.t = "str" THEN JSONParse(json) ELSE [ok |-> TRUE, v |-> json]
    IN  IF ~r.ok THEN [ok |-> FALSE, exc |-> SyntaxError]
        ELSE IF GetThrows(r.v) THEN [ok |-> FALSE, exc |-> TypeError]
        ELSE LET j == r.v
                 base == {<<Word("id"), Get(j, Word("id"))>>,
                          <<Word("displayName"), Get(j, Word("name"))>>,
                          <<Word("birthday"), Get(j, Word("birthday"))>>,
                          <<Word("gender"), Get(j, Word("gender"))>>}
                 picture == Get(j, Word("picture"))
             IN  [ok |-> TRUE,
                  v |-> Obj(MapOf(IF Truthy(picture)
                                  THEN base \cup {<<Word("photos"), Photos(picture)>>}
                                  ELSE base))]

----------------------------------------------------------------------------
(* lib/strategy.js *)

DefaultProfileURL == Word("https://graph.zalo.me/v2.0/me")

(* Strategy(options, verify): the configuration the strategy holds *)
Strategy(options) ==
    [profileURL |-> IF Truthy(options.profileURL) THEN options.profileURL
                    ELSE DefaultProfileURL,
     profileFields |-> IF Truthy(options.profileFields) THEN options.profileFields
                       ELSE Null,
     enableProof |-> options.enableProof,
     clientSecret |-> options.clientSecret]

(* the outcome of one call: what it passed to this.error, to the OAuth2     *)
(* engine, to done, to Profile.parse and to console.log, what it threw and  *)
(* what it returned                                                         *)
Outcome(op, arg) ==
    [op |-> op, arg |-> arg, errorCalls |-> << >>, engineCalls |-> << >>,
     doneCalls |-> << >>, parseCalls |-> << >>, consoleLog |-> << >>,
     thrown |-> Undefined, ret |-> Undefined]

(* req.query && req.query.error_code && !req.query.error *)
ErrorRedirect(req) ==
    /\ Truthy(req.query)
    /\ Truthy(Get(req.query, Word("error_code")))
    /\ ~Truthy(Get(req.query, Word("error")))

EngineAuthenticateNoOptions(req, options) ==
    [method |-> "authenticate", req |-> req, options |-> Undefined]

(* OAuth2Strategy.prototype.authenticate.call(this, req, options) *)
EngineAuthenticate(req, options) ==
    [method |-> "authenticate", req |-> req, options |-> options]

AuthenticateOutcome(req, options) ==
    IF ErrorRedirect(req)
    THEN [Outcome("authenticate", [req |-> req, options |-> options])
            EXCEPT !.errorCalls =
                <<ZaloAPIError(Get(req.query, Word("error_message")),
                               ParseInt(Get(req.query, Word("error_code"))))>>]
    ELSE [Outcome("authenticate", [req |-> req, options |-> options])
            EXCEPT !.engineCalls = <<EngineAuthenticate(req, options)>>]

(* params.<name> = value when value is truthy *)
SetIf(params, name, value) ==
    IF Truthy(value)
    THEN [x \in DOMAIN params \cup {name} |-> IF x = name THEN value ELSE params[x]]
    ELSE params

AuthorizationParamsOf(options) ==
    Obj(SetIf(SetIf(SetIf(EmptyMap,
                          Word("display"), Get(options, Word("display"))),
                    Word("auth_type"), Get(options, Word("authType"))),
              Word("auth_nonce"), Get(options, Word("authNonce"))))

(* the table of _convertProfileFields, an object literal *)
FieldMap ==
    Obj(MapOf({<<Word("id"), Word("id")>>,
               <<Word("displayName"), Word("name")>>,
               <<Word("gender"), Word("gender")>>,
               <<Word("birthday"), Word("birthday")>>,
               <<Word("photos"), Word("picture")>>}))

(* what the forEach callback pushes for field f *)
ConvertedField(f) ==
    LET mapped == Get(FieldMap, f)
    IN  IF mapped.t = "undefined" THEN <<f>>
        ELSE IF mapped.t = "arr" THEN mapped.e
        ELSE <<mapped>>

RECURSIVE ConvertedFields(_)
ConvertedFields(fs) ==
    IF fs = << >> THEN << >>
    ELSE ConvertedField(fs[1]) \o ConvertedFields(Tail(fs))

ConvertProfileFields(profileFields) ==
    Str(Join(ConvertedFields(profileFields.e), <<Ch(",")>>))

(* crypto.createHmac('sha256', key).update(message).digest('hex') *)
HmacSha256Hex(key, message) ==
    <<Ch("hmac-sha256:")>> \o key.s \o <<Ch(":")>> \o message.s

ProofSearchAppended(search, proof) ==
    Str((IF Truthy(search) THEN search.s \o <<Ch("&")>> ELSE << >>)
        \o <<Ch("appsecret_proof=")>> \o proof)

(* url.search after the enableProof branch, which computes the proof *)
ProofSearch(search, proof) ==
    IF Truthy(search) THEN Str(search.s \o <<Ch("&")>>) ELSE EmptyString

FieldsSearch(search, fields) ==
    Str((IF Truthy(search) THEN search.s \o <<Ch("&")>> ELSE << >>)
        \o <<Ch("fields=")>> \o fields.s)

(* the URL userProfile passes to this._oauth2.get *)
ProfileRequestURL(cfg, accessToken) ==
    LET url0 == UrlParse(cfg.profileURL)
        url1 == IF Truthy(cfg.enableProof)
                THEN [url0 EXCEPT !.search =
                        ProofSearch(url0.search,
                                    HmacSha256Hex(cfg.clientSecret, accessToken))]
                ELSE url0
        fields == IF Truthy(cfg.profileFields)
                  THEN ConvertProfileFields(cfg.profileFields)
                  ELSE EmptyString
        url2 == IF Truthy(cfg.profileFields) /\ fields # EmptyString
                THEN [url1 EXCEPT !.search = FieldsSearch(url1.search, fields)]
                ELSE url1
    IN  UrlFormat(url2)


(* json && json.error && typeof json.error == 'object' *)
StructuredErrorNoTypeof(json) ==
    /\ Truthy(json)
    /\ Truthy(Get(json, Word("error")))

StructuredError(json) ==
    /\ Truthy(json)
    /\ Truthy(Get(json, Word("error")))
    /\ TypeofObject(Get(json, Word("error")))

ErrorOfJSON(json) ==
    ZaloAPIError(Get(Get(json, Word("error")), Word("message")),
                 Get(Get(json, Word("error")), Word("code")))

Done(err, profile) == [err |-> err, profile |-> profile]

(* the get callback when err is set: what it passes to done *)
OnTransportError(err) ==
    LET r == IF Truthy(err.data) THEN JSONParse(err.data) ELSE [ok |-> FALSE]
        json == IF r.ok THEN r.v ELSE Undefined
    IN  IF StructuredError(json)
        THEN <<Done(ErrorOfJSON(json), Undefined)>>
        ELSE <<Done(InternalOAuthError(Word("Failed to fetch user profile"), err),
                    Undefined)>>

(* profile.provider, profile._raw and profile._json set on the parsed profile *)
Decorate(profile, body, json) ==
    Obj([x \in DOMAIN profile.m
             \cup {Word("provider"), Word("_raw"), Word("_json")} |->
           CASE x = Word("provider") -> Word("facebook")
             [] x = Word("_raw") -> body
             [] x = Word("_json") -> json
             [] OTHER -> profile.m[x]])

OnBodyUnguarded(out, body) ==
    LET r == JSONParse(body)
    IN  IF ~r.ok THEN [out EXCEPT !.thrown = SyntaxError]
        ELSE LET p == ProfileParse(r.v)
             IN  IF ~p.ok
                 THEN [out EXCEPT !.parseCalls = <<r.v>>, !.thrown = p.exc]
                 ELSE [out EXCEPT !.parseCalls = <<r.v>>,
                                  !.doneCalls =
                                      <<Done(Null, Decorate(p.v, body, r.v))>>]

(* the get callback when err is not set *)
OnBody(out, body) ==
    LET r == JSONParse(body)
    IN  IF ~r.ok
        THEN [out EXCEPT !.doneCalls =
                <<Done(Error(Word("Failed to parse user profile")), Undefined)>>]
        ELSE LET p == ProfileParse(r.v)
             IN  IF ~p.ok
                 THEN [out EXCEPT !.parseCalls = <<r.v>>, !.thrown = p.exc]
                 ELSE [out EXCEPT !.parseCalls = <<r.v>>,
                                  !.doneCalls =
                                      <<Done(Null, Decorate(p.v, body, r.v))>>]

(* function (err, body, res) given to this._oauth2.get *)
ProfileCallback(attempt, err, body) ==
    LET out == Outcome("getComplete",
                       [attempt |-> attempt, err |-> err, body |-> body])
    IN  IF err # Null
        THEN [out EXCEPT !.doneCalls = OnTransportError(err)]
        ELSE OnBody(out, body)

(* OAuth2Strategy.prototype.parseErrorResponse.call(this, body, status) *)
EngineParseErrorResponse(body, status) ==
    [method |-> "parseErrorResponse", body |-> body, status |-> status]

EngineResult(call) == [t |-> "engineResult", of |-> call]

ParseErrorResponseOutcome(body, status) ==
    LET out == Outcome("parseErrorResponse", [body |-> body, status |-> status])
        r == JSONParse(body)
    IN  IF ~r.ok THEN [out EXCEPT !.thrown = SyntaxError]
        ELSE IF GetThrows(r.v)
        THEN [out EXCEPT !.consoleLog = <<r.v>>, !.thrown = TypeError]
        ELSE IF Truthy(Get(r.v, Word("error")))
                /\ TypeofObject(Get(r.v, Word("error")))
        THEN [out EXCEPT !.consoleLog = <<r.v>>, !.ret = ErrorOfJSON(r.v)]
        ELSE [out EXCEPT !.consoleLog = <<r.v>>,
                         !.engineCalls = <<EngineParseErrorResponse(body, status)>>,
                         !.ret = EngineResult(EngineParseErrorResponse(body, status))]

----------------------------------------------------------------------------
(* inputs *)

MaxAttempts == 2
MaxFields == 3

Quoted(w) == Lit(Chars(<<w>>))

THtml == Word("<html>")
TNull == Word("null")
TNumber == Str(<<NumLit(5)>>)
TQuotedObject == Str(<<Lit(Chars(<<"{", "}">>))>>)
TQuotedWord == Str(<<Quoted("abc")>>)
TEmptyObject == Text(<<"{", "}">>)
TEmptyArray == Text(<<"[", "]">>)
TTruncated == Str(<<Ch("{"), Quoted("error"), Ch(":")>>)
TErrorObject ==
    Str(<<Ch("{"), Quoted("error"), Ch(":"), Ch("{"),
          Quoted("message"), Ch(":"), Quoted("Invalid token"), Ch(","),
          Quoted("code"), Ch(":"), NumLit(190), Ch("}"), Ch("}")>>)
TErrorString ==
    Str(<<Ch("{"), Quoted("error"), Ch(":"), Quoted("invalid_grant"), Ch("}")>>)
TErrorArray ==
    Str(<<Ch("{"), Quoted("error"), Ch(":"), Ch("["), NumLit(190), Ch("]"), Ch("}")>>)
TErrorNull ==
    Str(<<Ch("{"), Quoted("error"), Ch(":"), Ch("null"), Ch("}")>>)
TProfileNested ==
    Str(<<Ch("{"), Quoted("id"), Ch(":"), Quoted("42"), Ch(","),
          Quoted("name"), Ch(":"), Quoted("An"), Ch(","),
          Quoted("picture"), Ch(":"), Ch("{"), Quoted("data"), Ch(":"), Ch("{"),
          Quoted("url"), Ch(":"), Quoted("https://img/42"),
          Ch("}"), Ch("}"), Ch("}")>>)
TProfileFlat ==
    Str(<<Ch("{"), Quoted("id"), Ch(":"), Quoted("42"), Ch(","),
          Quoted("picture"), Ch(":"), Quoted("https://img/42"), Ch("}")>>)
TProfileNoPicture ==
    Str(<<Ch("{"), Quoted("id"), Ch(":"), Quoted("42"), Ch(","),
          Quoted("gender"), Ch(":"), Quoted("male"), Ch("}")>>)

(* response bodies of the profile request *)
Bodies ==
    {Undefined, THtml, TTruncated, TNull, TQuotedObject, TQuotedWord,
     TEmptyArray, TProfileNested, TProfileFlat, TProfileNoPicture}

(* err.data of a transport error *)
ErrorDatas ==
    {Undefined, EmptyString, THtml, TNull, TNumber, TErrorObject, TErrorString,
     TErrorArray, TErrorNull, TProfileFlat}

StatusCodes == {Num(400), Num(500)}

TransportErrors == [statusCode : {Num(500)}, data : ErrorDatas]

(* what the get callback is called with: <<err, body>> *)
Responses ==
    {<<Null, b>> : b \in Bodies} \cup {<<e, Undefined>> : e \in TransportErrors}

AccessTokens == {Word("tokenA"), Word("tokenB")}

ProfileURLs ==
    {Undefined,
     Text(<<"https://graph.zalo.me/v2.0/me", "?", "locale=vi">>),
     Text(<<"https://graph.zalo.me/v2.0/me", "?", "locale=vi", "#", "top">>)}

StrategyOptions ==
    [profileURL : ProfileURLs,
     profileFields : {Undefined, Arr(<< >>),
                      Arr(<<Word("id"), Word("displayName"), Word("unknownField")>>)},
     enableProof : {Undefined, Bool(TRUE)},
     clientSecret : {Word("shhh-its-a-secret")}]

(* a query object holding the parameters that are present *)
Query(error_code, error, error_message) ==
    Obj(MapOf({p \in {<<Word("error_code"), error_code>>,
                      <<Word("error"), error>>,
                      <<Word("error_message"), error_message>>} :
               p[2] # Undefined}))

ErrorCodes ==
    {Undefined, EmptyString, Text(<<"1", "9", "0">>), Text(<<"a", "b", "c">>),
     Text(<<" ", "-", "7", "x">>)}

Requests ==
    {[query |-> Undefined]}
    \cup {[query |-> Query(ec, e, em)] :
            ec \in ErrorCodes,
            e \in {Undefined, EmptyString, Word("access_denied")},
            em \in {Undefined, Word("Invalid token")}}

AuthenticateOptions ==
    {Obj(EmptyMap), Obj(MapOf({<<Word("display"), Word("popup")>>}))}

ParamOptions ==
    {Obj(MapOf({p \in {<<Word("display"), d>>, <<Word("authType"), a>>,
                       <<Word("authNonce"), n>>, <<Word("scope"), Word("email")>>} :
                p[2] # Undefined})) :
        d \in {Undefined, Word("popup")},
        a \in {Undefined, Word("reauthenticate")},
        n \in {Undefined, Word("nonce1")}}

FieldNames ==
    {Word("id"), Word("displayName"), Word("gender"), Word("birthday"),
     Word("photos"), Word("unknownField"), Word("constructor")}

RECURSIVE SeqsUpTo(_, _)
SeqsUpTo(S, n) ==
    IF n = 0 THEN {<< >>}
    ELSE LET shorter == SeqsUpTo(S, n - 1)
         IN  shorter \cup {Append(q, x) : q \in shorter, x \in S}

FieldLists == SeqsUpTo(FieldNames, MaxFields)

Pictures ==
    {Undefined, Null, EmptyString, Num(0), Bool(FALSE),
     Word("https://img/42"),
     Obj(EmptyMap),
     Obj(MapOf({<<Word("data"), Null>>})),
     Obj(MapOf({<<Word("data"), Obj(EmptyMap)>>})),
     Obj(MapOf({<<Word("data"),
                  Obj(MapOf({<<Word("url"), Word("https://img/42")>>}))>>}))}

RawObjects ==
    {Obj(MapOf({p \in {<<Word("id"), id>>, <<Word("name"), name>>,
                       <<Word("birthday"), birthday>>, <<Word("gender"), gender>>,
                       <<Word("picture"), picture>>} :
                p[2] # Undefined})) :
        id \in {Undefined, Word("42")},
        name \in {Undefined, Word("An")},
        birthday \in {Undefined, Word("01/01/2000")},
        gender \in {Undefined, Word("male")},
        picture \in Pictures}

(* Profile.parse takes a decoded profile or its JSON text *)
RawProfiles ==
    RawObjects \cup {TProfileNested, TProfileFlat, TProfileNoPicture, TEmptyObject}

----------------------------------------------------------------------------
(* the strategy as a state machine *)

Init ==
    /\ config \in {Strategy(options) : options \in StrategyOptions}
    /\ inflight = EmptyBag
    /\ last = Outcome("init", Undefined)

Authenticate ==
    \E req \in Requests, options \in AuthenticateOptions :
        /\ last' = AuthenticateOutcome(req, options)
        /\ UNCHANGED <<config, inflight>>

AuthorizationParams ==
    \E options \in ParamOptions :
        /\ last' = [Outcome("authorizationParams", options)
                      EXCEPT !.ret = AuthorizationParamsOf(options)]
        /\ UNCHANGED <<config, inflight>>

(* a get whose callback has not run yet *)
Attempt(url, accessToken) == [url |-> url, accessToken |-> accessToken]

UserProfileKeepingURL(accessToken) ==
    LET url == ProfileRequestURL(config, accessToken)
    IN  /\ BagCardinality(inflight) < MaxAttempts
        /\ inflight' = inflight (+) SetToBag({Attempt(url, accessToken)})
        /\ last' = [Outcome("userProfile", accessToken) EXCEPT !.engineCalls =
              <<[method |-> "get", url |-> url, accessToken |-> accessToken]>>]
        /\ config' = [config EXCEPT !.profileURL = url]

(* userProfile up to the call of this._oauth2.get *)
UserProfileCall(accessToken) ==
    LET url == ProfileRequestURL(config, accessToken)
    IN  /\ BagCardinality(inflight) < MaxAttempts
        /\ inflight' = inflight (+) SetToBag({Attempt(url, accessToken)})
        /\ last' = [Outcome("userProfile", accessToken) EXCEPT !.engineCalls =
              <<[method |-> "get", url |-> url, accessToken |-> accessToken]>>]
        /\ UNCHANGED config

UserProfile == \E accessToken \in AccessTokens : UserProfileCall(accessToken)

(* the HTTP get of one attempt completes and its callback runs *)
GetComplete ==
    \E attempt \in BagToSet(inflight), response \in Responses :
        /\ inflight' = inflight (-) SetToBag({attempt})
        /\ last' = ProfileCallback(attempt, response[1], response[2])
        /\ UNCHANGED config

ParseErrorResponse ==
    \E body \in ErrorDatas \ {Undefined}, status \in StatusCodes :
        /\ last' = ParseErrorResponseOutcome(body, status)
        /\ UNCHANGED <<config, inflight>>

Next ==
    \/ Authenticate
    \/ AuthorizationParams
    \/ UserProfile
    \/ GetComplete
    \/ ParseErrorResponse

Spec == Init /\ [][Next]_vars

(* _convertProfileFields applied to every allow-list of up to MaxFields names *)
ConvertFields ==
    \E fs \in FieldLists :
        /\ last' = [Outcome("convertProfileFields", Arr(fs))
                      EXCEPT !.ret = ConvertProfileFields(Arr(fs))]
        /\ UNCHANGED <<config, inflight>>

SpecFields == Init /\ [][ConvertFields]_vars

(* Profile.parse applied to every raw profile *)
ParseProfile ==
    \E raw \in RawProfiles :
        /\ last' = LET p == ProfileParse(raw)
                   IN  IF p.ok
                       THEN [Outcome("profileParse", raw) EXCEPT !.ret = p.v]
                       ELSE [Outcome("profileParse", raw) EXCEPT !.thrown = p.exc]
        /\ UNCHANGED <<config, inflight>>

SpecParse == Init /\ [][ParseProfile]_vars

----------------------------------------------------------------------------
(* vocabulary of the properties, stated on the data and not through the     *)
(* operators of the code                                                    *)

(* object o has a member called name *)
Has(o, name) == o.t = "obj" /\ Word(name) \in DOMAIN o.m

(* that member, undefined when there is none *)
Member(o, name) == IF Has(o, name) THEN o.m[Word(name)] ELSE Undefined

(* parameter name of the query is present and not the empty string *)
NonEmptyParam(req, name) ==
    Has(req.query, name) /\ req.query.m[Word(name)] # EmptyString

LastRequest == last.arg.req

DelegatedOnce ==
    /\ last.engineCalls =
          <<[method |-> "authenticate", req |-> last.arg.req,
             options |-> last.arg.options]>>
    /\ last.errorCalls = << >>

(* C1 as the spec states it: whenever error_code is present and error is     *)
(* not, authenticate reports exactly one ZaloAPIError whose message is       *)
(* error_message and whose code is the integer value of error_code (190 for  *)
(* "190"), and the OAuth2 engine is not invoked.                             *)
C1_PresentErrorCodeFails ==
    (last.op = "authenticate" /\ Has(LastRequest.query, "error_code")
        /\ ~Has(LastRequest.query, "error"))
    => /\ Len(last.errorCalls) = 1
       /\ last.errorCalls[1].name = "ZaloAPIError"
       /\ last.errorCalls[1].message = Member(LastRequest.query, "error_message")
       /\ last.errorCalls[1].code.t = "num"
       /\ last.engineCalls = << >>

(* the integer parseInt(s, 10) reads off the error codes of the model *)
ExpectedCode(s) ==
    CASE s = Text(<<"1", "9", "0">>) -> Num(190)
      [] s = Text(<<" ", "-", "7", "x">>) -> Num(0 - 7)
      [] s = Text(<<"a", "b", "c">>) -> NaN

(* C1, amended: whenever error_code is present and non-empty and error is    *)
(* absent or empty, authenticate reports exactly one failure, a ZaloAPIError *)
(* with status 500 whose message is error_message and whose code is          *)
(* parseInt(error_code, 10) (190 for "190", NaN when error_code does not     *)
(* start with a number), and the OAuth2 engine is not invoked.               *)
C1_NonEmptyErrorCodeFails ==
    (last.op = "authenticate" /\ NonEmptyParam(LastRequest, "error_code")
        /\ ~NonEmptyParam(LastRequest, "error"))
    => /\ last.errorCalls =
            <<[t |-> "error", name |-> "ZaloAPIError",
               message |-> Member(LastRequest.query, "error_message"),
               code |-> ExpectedCode(Member(LastRequest.query, "error_code")),
               status |-> 500]>>
       /\ last.engineCalls = << >>

C1_Witness ==
    /\ last.op = "authenticate"
    /\ Has(LastRequest.query, "error_code")
    /\ LastRequest.query.m[Word("error_code")] = Text(<<"1", "9", "0">>)
    /\ ~Has(LastRequest.query, "error")
    /\ Len(last.errorCalls) = 1
    /\ last.errorCalls[1].code = Num(190)

(* C2 as the spec states it: a request with no query, no error_code, or both *)
(* error_code and error present is handed to the engine's authenticate       *)
(* exactly once with the same request and options, and no ProviderError is   *)
(* raised.                                                                   *)
C2_OtherwiseDelegates ==
    (last.op = "authenticate"
        /\ ~(Has(LastRequest.query, "error_code") /\ ~Has(LastRequest.query, "error")))
    => DelegatedOnce

(* C2, amended: a request with no query, with error_code absent or empty, or *)
(* with a non-empty error parameter is handed to the engine's authenticate   *)
(* exactly once with the same request and options, and the strategy raises   *)
(* no ProviderError.                                                         *)
C2_NoErrorCodeOrErrorDelegates ==
    (last.op = "authenticate"
        /\ (~NonEmptyParam(LastRequest, "error_code")
               \/ NonEmptyParam(LastRequest, "error")))
    => DelegatedOnce

C2_Witness ==
    /\ last.op = "authenticate"
    /\ NonEmptyParam(LastRequest, "error_code")
    /\ NonEmptyParam(LastRequest, "error")
    /\ Len(last.engineCalls) = 1
    /\ last.arg.options # Obj(EmptyMap)

(* C3: every completion of the profile get invokes done exactly once, with   *)
(* an error and no profile or with no error and a normalized profile, and no *)
(* exception escapes the callback.                                           *)
C3_DoneExactlyOnce ==
    last.op = "getComplete"
    => /\ Len(last.doneCalls) = 1
       /\ last.thrown = Undefined
       /\ \/ last.doneCalls[1].err.t = "error"
                /\ last.doneCalls[1].profile = Undefined
          \/ last.doneCalls[1].err = Null
                /\ last.doneCalls[1].profile.t = "obj"

(* the error data is JSON text of an object whose `error` member is an       *)
(* object (typeof 'object': a JSON object or array)                          *)
HasStructuredError(data) ==
    /\ JSONParse(data).ok
    /\ Has(JSONParse(data).v, "error")
    /\ JSONParse(data).v.m[Word("error")].t \in {"obj", "arr"}

(* C4: on a transport error, done gets ZaloAPIError(error.message,           *)
(* error.code) exactly when the error data is JSON with a structured `error` *)
(* member; otherwise it gets the InternalOAuthError wrapping the transport   *)
(* error, and the failure to parse the data is neither reported nor thrown.  *)
C4_TransportError ==
    (last.op = "getComplete" /\ last.arg.err # Null)
    => /\ last.thrown = Undefined
       /\ IF HasStructuredError(last.arg.err.data)
          THEN LET e == JSONParse(last.arg.err.data).v.m[Word("error")]
               IN  last.doneCalls =
                      <<[err |-> [t |-> "error", name |-> "ZaloAPIError",
                                  message |-> Member(e, "message"),
                                  code |-> Member(e, "code"), status |-> 500],
                         profile |-> Undefined]>>
          ELSE last.doneCalls =
                  <<[err |-> [t |-> "error", name |-> "InternalOAuthError",
                              message |-> Word("Failed to fetch user profile"),
                              oauthError |-> last.arg.err],
                     profile |-> Undefined]>>

C4_Witness ==
    /\ last.op = "getComplete"
    /\ last.arg.err # Null
    /\ last.arg.err.data = TErrorObject
    /\ last.doneCalls[1].err.name = "ZaloAPIError"
    /\ last.doneCalls[1].err.message = Word("Invalid token")
    /\ last.doneCalls[1].err.code = Num(190)

(* C5: parseErrorResponse returns ZaloAPIError(error.message, error.code)    *)
(* for a body with a structured `error` object and for every other body      *)
(* returns the result of the engine's parseErrorResponse(body, status); it   *)
(* never fails itself.                                                       *)
C5_ParseErrorResponseReturns ==
    last.op = "parseErrorResponse"
    => /\ last.thrown = Undefined
       /\ IF HasStructuredError(last.arg.body)
          THEN LET e == JSONParse(last.arg.body).v.m[Word("error")]
               IN  last.ret = [t |-> "error", name |-> "ZaloAPIError",
                               message |-> Member(e, "message"),
                               code |-> Member(e, "code"), status |-> 500]
          ELSE /\ last.engineCalls =
                     <<[method |-> "parseErrorResponse", body |-> last.arg.body,
                        status |-> last.arg.status]>>
               /\ last.ret.t = "engineResult"

(* C6: when the get completes without error and the body is not valid JSON,  *)
(* done gets the 'Failed to parse user profile' error and no profile, the    *)
(* normalizer is not run and nothing is thrown.                              *)
C6_MalformedBody ==
    (last.op = "getComplete" /\ last.arg.err = Null /\ ~JSONParse(last.arg.body).ok)
    => /\ last.doneCalls =
            <<[err |-> [t |-> "error", name |-> "Error",
                        message |-> Word("Failed to parse user profile")],
               profile |-> Undefined]>>
       /\ last.parseCalls = << >>
       /\ last.thrown = Undefined

C6_Witness ==
    /\ last.op = "getComplete"
    /\ last.arg.err = Null
    /\ last.arg.body = THtml
    /\ Len(last.doneCalls) = 1
    /\ last.doneCalls[1].err.name = "Error"

(* the decoded raw profile Profile.parse was given *)
LastRaw == IF last.arg.t = "str" THEN JSONParse(last.arg).v ELSE last.arg

OnePhoto(u) == Arr(<<Obj([key \in {Word("value")} |-> u])>>)

FieldsCopied ==
    /\ last.ret.m[Word("id")] = Member(LastRaw, "id")
    /\ last.ret.m[Word("displayName")] = Member(LastRaw, "name")
    /\ last.ret.m[Word("birthday")] = Member(LastRaw, "birthday")
    /\ last.ret.m[Word("gender")] = Member(LastRaw, "gender")

(* photos, when present, is one {value: U}: U is picture.data.url for a      *)
(* picture object with a nested data.url and the picture for a plain value   *)
PhotoRule ==
    Has(last.ret, "photos")
    => LET picture == Member(LastRaw, "picture")
           photos == last.ret.m[Word("photos")]
       IN  /\ photos.t = "arr" /\ Len(photos.e) = 1
           /\ DOMAIN photos.e[1].m = {Word("value")}
           /\ (Has(picture, "data") /\ Has(picture.m[Word("data")], "url"))
                 => photos = OnePhoto(picture.m[Word("data")].m[Word("url")])
           /\ picture.t \notin {"obj", "arr"} => photos = OnePhoto(picture)

(* C7 as the spec states it: parse yields photos if and only if the raw      *)
(* profile has a picture field; photos is then one {value: U} by the photo   *)
(* rule, and id, displayName, birthday, gender are copied.                   *)
C7_PhotosIffPicture ==
    last.op = "profileParse"
    => /\ last.thrown = Undefined
       /\ Has(last.ret, "photos") <=> Has(LastRaw, "picture")
       /\ PhotoRule
       /\ FieldsCopied

FalsyValues == {Null, EmptyString, Num(0), Bool(FALSE)}

(* C7, amended: parse yields photos if and only if the raw profile has a     *)
(* picture field whose value is truthy (not null, false, 0 or the empty      *)
(* string); photos is then one {value: U} by the photo rule, and id,         *)
(* displayName, birthday, gender are copied.                                 *)
C7_PhotosIffTruthyPicture ==
    last.op = "profileParse"
    => /\ last.thrown = Undefined
       /\ Has(last.ret, "photos")
             <=> (Has(LastRaw, "picture")
                     /\ LastRaw.m[Word("picture")] \notin FalsyValues)
       /\ PhotoRule
       /\ FieldsCopied

C7_Witness ==
    /\ last.op = "profileParse"
    /\ Has(LastRaw, "picture")
    /\ Has(LastRaw.m[Word("picture")], "data")
    /\ Has(last.ret, "photos")
    /\ last.ret.m[Word("photos")] = OnePhoto(Word("https://img/42"))
    /\ last.ret.m[Word("displayName")] = Word("An")

(* the fixed table of the spec; every other name is its own image *)
TableImage(f) ==
    CASE f = Word("displayName") -> Word("name")
      [] f = Word("photos") -> Word("picture")
      [] OTHER -> f

RECURSIVE CommaJoined(_)
CommaJoined(fs) ==
    IF fs = << >> THEN << >>
    ELSE IF Len(fs) = 1 THEN TableImage(fs[1]).s
    ELSE TableImage(fs[1]).s \o <<Ch(",")>> \o CommaJoined(Tail(fs))

(* C8: the fields value is the comma-joined list of the images of the        *)
(* allow-list's entries under the fixed table, in order and one for one,     *)
(* names outside the table unchanged.                                        *)
C8_FieldsAreTableImages ==
    last.op = "convertProfileFields"
    => last.ret = Str(CommaJoined(last.arg.e))

(* C9: the configuration the strategy holds never changes after             *)
(* construction, whatever calls and completions are interleaved.             *)
C9_ConfigUnchanged == [][config' = config]_vars

(* a completion runs while another attempt is still in flight *)
C9_Witness ==
    /\ last.op = "getComplete"
    /\ BagCardinality(inflight) >= 1

ProofOff(cfg) == [cfg EXCEPT !.enableProof = Undefined]

NoProofParameter(url) ==
    \A i \in 1..Len(url.s) :
        url.s[i].k = "ch" /\ url.s[i].c \notin {"appsecret_proof=", "hmac-sha256:"}

HasQueryString(url) == \E i \in 1..Len(url.s) : url.s[i] = Ch("?")

(* where the query string of the URL ends: before the fragment, if any *)
QueryEnd(url) ==
    IF \E i \in 1..Len(url.s) : url.s[i] = Ch("#")
    THEN CHOOSE i \in 1..Len(url.s) : url.s[i] = Ch("#")
    ELSE Len(url.s) + 1

RemoveAt(s, i) == SubSeq(s, 1, i - 1) \o SubSeq(s, i + 1, Len(s))

====
